---- MODULE Spec2Model ----
(***************************************************************************)
(* Model of the three presentation components of the movie-industry        *)
(* analytics bundle: GenreVisualization, BudgetEfficiencyAnalysis and      *)
(* StudioPerformance.  Each component holds literal datasets and maps them *)
(* through a charting library.                                             *)
(*                                                                         *)
(* Decimal literals of the source are kept exactly, as fixed-point         *)
(* integers: popularity scores, budgets and revenues in tenths (60.2 is    *)
(* 602), efficiencies and studio metrics in hundredths (3.45 is 345).      *)
(***************************************************************************)
EXTENDS Integers, Sequences, FiniteSets, TLC

\* ------------------------------------------------------------------ bounds

\* Each component is rendered at most MaxRenders times in a behaviour.
MaxRenders == 2

\* The tooltip payload handed to CustomTooltip holds at most MaxPayload entries.
MaxPayload == 2

\* getColorByRAR is applied to risk-adjusted returns of magnitude up to MaxRAR
\* hundredths.
MaxRAR == 1000

\* ------------------------------------------------------- decimal notation

RECURSIVE Pow10(_)
Pow10(n) == IF n = 0 THEN 1 ELSE 10 * Pow10(n - 1)

\* Number.prototype.toFixed(digits) of the number v / 10^scale: the decimal
\* text, as its whole part and its `digits` fractional digits (round half up).
toFixedText(v, scale, digits) ==
    LET scaled == IF digits >= scale
                  THEN v * Pow10(digits - scale)
                  ELSE (2 * v + Pow10(scale - digits)) \div (2 * Pow10(scale - digits))
    IN  [status |-> "ok",
         whole  |-> scaled \div Pow10(digits),
         frac   |-> scaled % Pow10(digits),
         digits |-> digits]

\* rec.field.toFixed(digits): a TypeError when the field is undefined.
toFixed(rec, field, scale, digits) ==
    IF field \in DOMAIN rec
    THEN toFixedText(rec[field], scale, digits)
    ELSE [status |-> "TypeError"]

\* ------------------------------------------------------ GenreVisualization

GenreRecordSwapped(year, horror, scifi, action, drama, comedy) ==
    [year |-> year, horror |-> horror, scifi |-> action, action |-> scifi,
     drama |-> drama, comedy |-> comedy]

GenreRecordDramaComedy(year, horror, scifi, action, drama, comedy) ==
    [year |-> year, horror |-> horror, scifi |-> scifi, action |-> action,
     drama |-> comedy, comedy |-> drama]

GenreRecordActionHorror(year, horror, scifi, action, drama, comedy) ==
    [year |-> year, horror |-> action, scifi |-> scifi, action |-> horror,
     drama |-> drama, comedy |-> comedy]

\* One object literal of the genre-popularity array (scores in tenths).
GenreRecord(year, horror, scifi, action, drama, comedy) ==
    [year |-> year, horror |-> horror, scifi |-> scifi, action |-> action,
     drama |-> drama, comedy |-> comedy]

GenreDataLiteral ==
    << GenreRecord(2015, 602, 726, 939, 718, 684),
       GenreRecord(2016, 687, 752, 953, 709, 679),
       GenreRecord(2017, 593, 794, 940, 696, 681),
       GenreRecord(2018, 712, 831, 908, 687, 674),
       GenreRecord(2019, 638, 848, 927, 683, 686),
       GenreRecord(2020, 695, 874, 889, 672, 678),
       GenreRecord(2021, 589, 906, 913, 668, 683),
       GenreRecord(2022, 706, 927, 935, 659, 677),
       GenreRecord(2023, 624, 953, 948, 647, 682),
       GenreRecord(2024, 681, 986, 962, 639, 675) >>

\* The years named in the chart title "Genre Popularity Trends (2015-2024)".
TitleFirstYear == 2015
TitleLastYear == 2024

\* The five <Line> elements: dataKey, legend name and stroke.
GenreLines ==
    << [dataKey |-> "horror", name |-> "Horror",          stroke |-> "#d32f2f"],
       [dataKey |-> "scifi",  name |-> "Science Fiction", stroke |-> "#2e7d32"],
       [dataKey |-> "action", name |-> "Action",          stroke |-> "#1976d2"],
       [dataKey |-> "drama",  name |-> "Drama",           stroke |-> "#7b1fa2"],
       [dataKey |-> "comedy", name |-> "Comedy",          stroke |-> "#ff9800"] >>

\* The points one <Line dataKey=...> draws from the chart's data: one per row,
\* x from the XAxis dataKey "year", y from the line's own dataKey.
LinePoints(data, dataKey) ==
    [i \in 1..Len(data) |-> [x |-> data[i].year, y |-> data[i][dataKey]]]

\* The element tree GenreVisualization returns: the LineChart over `data`
\* and its five Line series.
GenreChart(data) ==
    [status |-> "ok",
     title  |-> <<TitleFirstYear, TitleLastYear>>,
     data   |-> data,
     lines  |-> [k \in 1..Len(GenreLines) |->
                   [dataKey |-> GenreLines[k].dataKey,
                    name    |-> GenreLines[k].name,
                    stroke  |-> GenreLines[k].stroke,
                    points  |-> LinePoints(data, GenreLines[k].dataKey)]]]

Reverse(s) == [i \in 1..Len(s) |-> s[Len(s) + 1 - i]]

GenreVisualizationReversing(data) ==
    [data |-> Reverse(data), out |-> GenreChart(Reverse(data))]

\* One render of GenreVisualization: the data array after the render and the
\* element tree returned.  The body only reads `data`.
GenreVisualization(data) ==
    [data |-> data, out |-> GenreChart(data)]

\* ------------------------------------------------ BudgetEfficiencyAnalysis

PointSwapped(budget, revenue, efficiency, genre) ==
    [budget |-> revenue, revenue |-> budget, efficiency |-> efficiency,
     genre |-> genre]

\* One object literal of a genre sample array (budget and revenue in tenths
\* of a million, efficiency in hundredths).
Point(budget, revenue, efficiency, genre) ==
    [budget |-> budget, revenue |-> revenue, efficiency |-> efficiency,
     genre |-> genre]

HorrorDataLiteral ==
    << Point(56, 193, 345, "Horror"),
       Point(82, 291, 355, "Horror"),
       Point(124, 521, 420, "Horror"),
       Point(73, 175, 240, "Horror"),
       Point(101, 353, 349, "Horror"),
       Point(48, 192, 400, "Horror"),
       Point(185, 453, 245, "Horror"),
       Point(97, 282, 291, "Horror"),
       Point(143, 429, 300, "Horror"),
       Point(65, 228, 351, "Horror") >>

ScifiDataLiteral ==
    << Point(1205, 1879, 156, "Science Fiction"),
       Point(1553, 2102, 135, "Science Fiction"),
       Point(1837, 3123, 170, "Science Fiction"),
       Point(928, 1392, 150, "Science Fiction"),
       Point(1462, 2559, 175, "Science Fiction"),
       Point(1754, 2456, 140, "Science Fiction"),
       Point(875, 1312, 150, "Science Fiction"),
       Point(1348, 2426, 180, "Science Fiction"),
       Point(1672, 3177, 190, "Science Fiction"),
       Point(1051, 1471, 140, "Science Fiction") >>

ActionDataLiteral ==
    << Point(853, 1953, 229, "Action"),
       Point(1127, 2930, 260, "Action"),
       Point(1274, 2803, 220, "Action"),
       Point(946, 2649, 280, "Action"),
       Point(1438, 3595, 250, "Action"),
       Point(763, 1831, 240, "Action"),
       Point(1059, 2129, 201, "Action"),
       Point(1356, 3268, 241, "Action"),
       Point(887, 2306, 260, "Action"),
       Point(1183, 2958, 250, "Action") >>

DramaDataLiteral ==
    << Point(356, 641, 180, "Drama"),
       Point(283, 594, 210, "Drama"),
       Point(427, 726, 170, "Drama"),
       Point(154, 323, 210, "Drama"),
       Point(248, 496, 200, "Drama"),
       Point(385, 655, 170, "Drama"),
       Point(196, 353, 180, "Drama"),
       Point(523, 994, 190, "Drama"),
       Point(337, 607, 180, "Drama"),
       Point(471, 852, 181, "Drama") >>

CombinedDataDroppingLast(horror, scifi, action, drama) ==
    horror \o scifi \o action

\* const combinedData = [...horrorData, ...scifiData, ...actionData, ...dramaData]
CombinedData(horror, scifi, action, drama) ==
    horror \o scifi \o action \o drama

\* The genreStats object literal (average efficiency for the legend, in
\* hundredths), keyed by genre name.
GenreStatsLiteral ==
    ("Horror" :> 329) @@ ("Science Fiction" :> 160) @@ ("Action" :> 246)
        @@ ("Drama" :> 187)

\* The averages quoted in the Key Findings list of the component.
KeyFindingsEfficiency ==
    ("Horror" :> 329) @@ ("Science Fiction" :> 160) @@ ("Action" :> 246)
        @@ ("Drama" :> 187)

\* The averages quoted in the executive summary.
SummaryEfficiency ==
    ("Horror" :> 329) @@ ("Science Fiction" :> 160) @@ ("Action" :> 246)
        @@ ("Drama" :> 187)

XAxisDomainNarrow == <<0, 1500>>

\* Axis domains of the scatter chart (tenths of a million).
XAxisDomain == <<0, 2000>>
YAxisDomain == <<0, 4000>>

\* stats[key]: undefined when the key is absent.
Lookup(stats, key) ==
    IF key \in DOMAIN stats
    THEN [defined |-> TRUE, value |-> stats[key]]
    ELSE [defined |-> FALSE]

\* renderScatter(data, color): reads data[0].genre (a TypeError on an empty
\* array), looks the genre up in genreStats and hands `data` whole to one
\* Scatter series.
renderScatter(data, color, stats) ==
    IF Len(data) = 0
    THEN [status |-> "TypeError"]
    ELSE LET genre == IF "genre" \in DOMAIN data[1]
                      THEN [defined |-> TRUE, value |-> data[1].genre]
                      ELSE [defined |-> FALSE]
         IN  [status |-> "ok",
              name   |-> [genre |-> genre,
                          avg   |-> IF genre.defined
                                    THEN Lookup(stats, genre.value)
                                    ELSE [defined |-> FALSE]],
              data   |-> data,
              fill   |-> color]

\* The four renderScatter calls of the chart, in source order.
ScatterSeries(horror, scifi, action, drama, stats) ==
    << renderScatter(horror, "#d32f2f", stats),
       renderScatter(scifi,  "#2e7d32", stats),
       renderScatter(action, "#1976d2", stats),
       renderScatter(drama,  "#7b1fa2", stats) >>

\* The element tree BudgetEfficiencyAnalysis returns; a throw in any
\* renderScatter call aborts the render.
BudgetChart(horror, scifi, action, drama, stats) ==
    LET series == ScatterSeries(horror, scifi, action, drama, stats)
    IN  IF \E k \in 1..Len(series) : series[k].status # "ok"
        THEN [status |-> "TypeError"]
        ELSE [status   |-> "ok",
              xDomain  |-> XAxisDomain,
              yDomain  |-> YAxisDomain,
              scatters |-> series]

\* One render of BudgetEfficiencyAnalysis: the datasets after the render and
\* the element tree returned.  The body only reads the arrays and genreStats.
BudgetEfficiencyAnalysis(horror, scifi, action, drama, stats) ==
    [horrorData   |-> horror,
     scifiData    |-> scifi,
     actionData   |-> action,
     dramaData    |-> drama,
     combinedData |-> CombinedData(horror, scifi, action, drama),
     genreStats   |-> stats,
     out          |-> BudgetChart(horror, scifi, action, drama, stats)]

CustomTooltipLastEntry(props) ==
    IF props.active /\ props.hasPayload /\ Len(props.payload) > 0
    THEN LET data == props.payload[Len(props.payload)].payload
         IN  [status     |-> "ok",
              genre      |-> [defined |-> TRUE, value |-> data.genre],
              budget     |-> toFixed(data, "budget", 1, 1),
              revenue    |-> toFixed(data, "revenue", 1, 1),
              efficiency |-> toFixed(data, "efficiency", 2, 2)]
    ELSE [status |-> "null"]

\* CustomTooltip({ active, payload }): props.hasPayload is FALSE for a
\* missing (undefined or null) payload.  Rendered fields come from
\* payload[0].payload; budget and revenue with one decimal, efficiency with two.
CustomTooltip(props) ==
    IF props.active /\ props.hasPayload /\ Len(props.payload) > 0
    THEN LET data       == props.payload[1].payload
             budget     == toFixed(data, "budget", 1, 1)
             revenue    == toFixed(data, "revenue", 1, 1)
             efficiency == toFixed(data, "efficiency", 2, 2)
         IN  IF \E t \in {budget, revenue, efficiency} : t.status # "ok"
             THEN [status |-> "TypeError"]
             ELSE [status     |-> "ok",
                   genre      |-> IF "genre" \in DOMAIN data
                                  THEN [defined |-> TRUE, value |-> data.genre]
                                  ELSE [defined |-> FALSE],
                   budget     |-> budget,
                   revenue    |-> revenue,
                   efficiency |-> efficiency]
    ELSE [status |-> "null"]

\* ------------------------------------------------------- StudioPerformance

StudioRecordSwapped(studio, riskAdjustedReturn, profitRatio, risk, genreDiversity) ==
    [studio |-> studio, riskAdjustedReturn |-> profitRatio,
     profitRatio |-> riskAdjustedReturn, risk |-> risk,
     genreDiversity |-> genreDiversity]

\* One object literal of the studio array (all metrics in hundredths).
StudioRecord(studio, riskAdjustedReturn, profitRatio, risk, genreDiversity) ==
    [studio |-> studio, riskAdjustedReturn |-> riskAdjustedReturn,
     profitRatio |-> profitRatio, risk |-> risk,
     genreDiversity |-> genreDiversity]

StudioDataLiteral ==
    << StudioRecord("Paramount",             831, 382, 46, 91),
       StudioRecord("Universal Pictures",    737, 204, 28, 81),
       StudioRecord("Walt Disney Pictures",  622, 341, 55, 57),
       StudioRecord("A24",                   536, 325, 61, 94),
       StudioRecord("Marvel Studios",        480, 127, 26, 38),
       StudioRecord("Blumhouse Productions", 437, 345, 79, 62) >>

getColorByRARInclusive(rar) ==
    IF rar >= 700 THEN "#1a237e"
    ELSE IF rar >= 500 THEN "#283593"
    ELSE IF rar >= 400 THEN "#3949ab"
    ELSE "#5c6bc0"

getColorByRARBandsSwapped(rar) ==
    IF rar > 700 THEN "#283593"
    ELSE IF rar > 500 THEN "#1a237e"
    ELSE IF rar > 400 THEN "#3949ab"
    ELSE "#5c6bc0"

\* getColorByRAR(rar), rar in hundredths.
getColorByRAR(rar) ==
    IF rar > 700 THEN "#1a237e"
    ELSE IF rar > 500 THEN "#283593"
    ELSE IF rar > 400 THEN "#3949ab"
    ELSE "#5c6bc0"

\* The <Cell> emitted by data.map for record `entry` at 0-based `index`.
StudioCell(entry, index) ==
    [key |-> index, fill |-> getColorByRAR(entry.riskAdjustedReturn)]

StudioRowMisnamed(studio, index) ==
    [key            |-> index,
     className      |-> IF index % 2 = 0 THEN "bg-gray-50" ELSE "bg-white",
     studio         |-> studio.studio,
     profitRatio    |-> toFixed(studio, "profit", 2, 2),
     risk           |-> toFixed(studio, "risk", 2, 2),
     genreDiversity |-> toFixed(studio, "genreDiversity", 2, 2)]

\* The <tr> emitted by data.map for record `studio` at 0-based `index`.
StudioRow(studio, index) ==
    [key            |-> index,
     className      |-> IF index % 2 = 0 THEN "bg-gray-50" ELSE "bg-white",
     studio         |-> studio.studio,
     profitRatio    |-> toFixed(studio, "profitRatio", 2, 2),
     risk           |-> toFixed(studio, "risk", 2, 2),
     genreDiversity |-> toFixed(studio, "genreDiversity", 2, 2)]

StudioCellsSkippingLast(data) ==
    [i \in 1..(Len(data) - 1) |-> StudioCell(data[i], i - 1)]

\* data.map((entry, index) => <Cell .../>): one Cell per record, in order.
StudioCells(data) ==
    [i \in 1..Len(data) |-> StudioCell(data[i], i - 1)]

\* data.map((studio, index) => <tr>...</tr>): one row per record, in order.
StudioRows(data) ==
    [i \in 1..Len(data) |-> StudioRow(data[i], i - 1)]

\* The element tree StudioPerformance returns; a throw in any toFixed call
\* aborts the render.
StudioChart(data) ==
    LET rows == StudioRows(data)
    IN  IF \E i \in 1..Len(rows) :
              \E t \in {rows[i].profitRatio, rows[i].risk, rows[i].genreDiversity} :
                  t.status # "ok"
        THEN [status |-> "TypeError"]
        ELSE [status |-> "ok",
              data   |-> data,
              cells  |-> StudioCells(data),
              rows   |-> rows]

StudioPerformanceSorting(data) ==
    [data |-> Reverse(data), out |-> StudioChart(Reverse(data))]

\* One render of StudioPerformance: the data array after the render and the
\* element tree returned.  The body only reads `data`.
StudioPerformance(data) ==
    [data |-> data, out |-> StudioChart(data)]

\* ------------------------------------------------------------ the program

VARIABLES
    genreData,      \* GenreVisualization's data array
    horrorData,     \* BudgetEfficiencyAnalysis's four sample arrays ...
    scifiData,
    actionData,
    dramaData,
    combinedData,   \* ... their concatenation ...
    genreStats,     \* ... and the legend averages
    studioData,     \* StudioPerformance's data array
    out,            \* the element tree each component returned last
    renders,        \* how often each component has been rendered
    tooltipProps,   \* the props of the last CustomTooltip invocation
    tooltip,        \* what that invocation returned
    colorCall       \* the last getColorByRAR call: its argument and result

datasets ==
    <<genreData, horrorData, scifiData, actionData, dramaData, combinedData,
      genreStats, studioData>>

vars ==
    <<genreData, horrorData, scifiData, actionData, dramaData, combinedData,
      genreStats, studioData, out, renders, tooltipProps, tooltip, colorCall>>

Genre == "GenreVisualization"
Budget == "BudgetEfficiencyAnalysis"
Studio == "StudioPerformance"

Components == {Genre, Budget, Studio}

\* The datasets as the module bodies build them; nothing rendered yet.
Init ==
    /\ genreData = GenreDataLiteral
    /\ horrorData = HorrorDataLiteral
    /\ scifiData = ScifiDataLiteral
    /\ actionData = ActionDataLiteral
    /\ dramaData = DramaDataLiteral
    /\ combinedData = CombinedData(HorrorDataLiteral, ScifiDataLiteral,
                                   ActionDataLiteral, DramaDataLiteral)
    /\ genreStats = GenreStatsLiteral
    /\ studioData = StudioDataLiteral
    /\ out = [c \in Components |-> [status |-> "none"]]
    /\ renders = [c \in Components |-> 0]
    /\ tooltipProps = [active |-> FALSE, hasPayload |-> FALSE, payload |-> <<>>]
    /\ tooltip = [status |-> "none"]
    /\ colorCall = [called |-> FALSE]

RenderGenre ==
    /\ renders[Genre] < MaxRenders
    /\ LET r == GenreVisualization(genreData)
       IN  /\ genreData' = r.data
           /\ out' = [out EXCEPT ![Genre] = r.out]
    /\ renders' = [renders EXCEPT ![Genre] = @ + 1]
    /\ UNCHANGED <<horrorData, scifiData, actionData, dramaData, combinedData,
                   genreStats, studioData, tooltipProps, tooltip, colorCall>>

RenderBudget ==
    /\ renders[Budget] < MaxRenders
    /\ LET r == BudgetEfficiencyAnalysis(horrorData, scifiData, actionData,
                                         dramaData, genreStats)
       IN  /\ horrorData' = r.horrorData
           /\ scifiData' = r.scifiData
           /\ actionData' = r.actionData
           /\ dramaData' = r.dramaData
           /\ combinedData' = r.combinedData
           /\ genreStats' = r.genreStats
           /\ out' = [out EXCEPT ![Budget] = r.out]
    /\ renders' = [renders EXCEPT ![Budget] = @ + 1]
    /\ UNCHANGED <<genreData, studioData, tooltipProps, tooltip, colorCall>>

RenderStudio ==
    /\ renders[Studio] < MaxRenders
    /\ LET r == StudioPerformance(studioData)
       IN  /\ studioData' = r.data
           /\ out' = [out EXCEPT ![Studio] = r.out]
    /\ renders' = [renders EXCEPT ![Studio] = @ + 1]
    /\ UNCHANGED <<genreData, horrorData, scifiData, actionData, dramaData,
                   combinedData, genreStats, tooltipProps, tooltip, colorCall>>

\* The points the rendered Scatter series hold: what a hover can hit.
HoverPoints ==
    IF out[Budget].status = "ok"
    THEN UNION {{out[Budget].scatters[k].data[i] :
                    i \in 1..Len(out[Budget].scatters[k].data)} :
                k \in 1..Len(out[Budget].scatters)}
    ELSE {}

\* Points of the entries of a payload with several entries: the first point
\* of the first and of the last series.
ExtraPoints ==
    IF out[Budget].status = "ok"
    THEN {out[Budget].scatters[k].data[1] : k \in {1, Len(out[Budget].scatters)}}
    ELSE {}

RECURSIVE Entries(_)
Entries(n) ==
    IF n <= 0 THEN {<<>>}
    ELSE {<<[payload |-> p]>> \o rest : p \in ExtraPoints, rest \in Entries(n - 1)}

\* The payload arrays the chart's Tooltip may hand to CustomTooltip: empty,
\* one entry for any plotted point, or 2..MaxPayload entries.
Payloads ==
    {<<>>}
        \cup {<<[payload |-> p]>> : p \in HoverPoints}
        \cup UNION {Entries(n) : n \in 2..MaxPayload}

\* The chart's Tooltip invokes CustomTooltip with some props.
Hover ==
    /\ out[Budget].status = "ok"
    /\ \E active \in BOOLEAN, hasPayload \in BOOLEAN :
         \E payload \in (IF hasPayload THEN Payloads ELSE {<<>>}) :
            /\ tooltipProps' = [active |-> active, hasPayload |-> hasPayload,
                                payload |-> payload]
            /\ tooltip' = CustomTooltip(tooltipProps')
    /\ UNCHANGED <<genreData, horrorData, scifiData, actionData, dramaData,
                   combinedData, genreStats, studioData, out, renders,
                   colorCall>>

Next ==
    \/ RenderGenre
    \/ RenderBudget
    \/ RenderStudio
    \/ Hover

Spec == Init /\ [][Next]_vars

\* The arguments getColorByRAR is applied to: every risk-adjusted return
\* from -MaxRAR / 100 to MaxRAR / 100, in hundredths.
RarInputs == (0 - MaxRAR)..MaxRAR

\* getColorByRAR applied to one argument.  The function keeps nothing between
\* calls, so a behaviour holds one call, on any argument.
GetColor ==
    /\ ~colorCall.called
    /\ \E rar \in RarInputs :
          colorCall' = [called |-> TRUE, rar |-> rar, fill |-> getColorByRAR(rar)]
    /\ UNCHANGED <<genreData, horrorData, scifiData, actionData, dramaData,
                   combinedData, genreStats, studioData, out, renders,
                   tooltipProps, tooltip>>

\* getColorByRAR on arbitrary arguments, beside renders of its component.
ColorNext ==
    \/ GetColor
    \/ RenderStudio

ColorSpec == Init /\ [][ColorNext]_vars

\* ------------------------------------------------------------- the claims

\* C1: every render leaves every dataset unchanged, changes the output of no
\* other component, and a component that has been rendered keeps the same
\* output on every later render (of itself or of another component).
C1_RendersAreFrameSafe ==
    [][ /\ datasets' = datasets
        /\ \A c \in Components : out[c].status # "none" => out'[c] = out[c]
        /\ \A c, d \in Components :
              (c # d /\ out'[c] # out[c]) => out'[d] = out[d]
        /\ \A c \in Components :
              out'[c] # out[c] => renders'[c] = renders[c] + 1 ]_vars

\* C1 witness: every component has been rendered at least twice, interleaved
\* with the others.
C1_Witness ==
    \A c \in Components : renders[c] >= 2 /\ out[c].status = "ok"

\* The points all rendered Scatter series hold, in series order.
RECURSIVE ConcatData(_, _)
ConcatData(series, k) ==
    IF k > Len(series) THEN <<>>
    ELSE series[k].data \o ConcatData(series, k + 1)

\* C2: each chart renders N data points for N input rows.  StudioPerformance
\* emits one Cell and one table row per record, Cell i and row i from record
\* i; BudgetEfficiencyAnalysis hands each of the four arrays whole to one
\* Scatter series (40 points, none dropped or duplicated); GenreVisualization
\* hands all 10 rows to each of its five Line series.
C2_OnePointPerRow ==
    /\ out[Studio].status # "none" =>
          /\ out[Studio].status = "ok"
          /\ Len(out[Studio].cells) = Len(studioData)
          /\ Len(out[Studio].rows) = Len(studioData)
          /\ \A i \in 1..Len(studioData) :
                /\ out[Studio].cells[i].key = i - 1
                /\ out[Studio].cells[i].fill =
                      getColorByRAR(studioData[i].riskAdjustedReturn)
                /\ out[Studio].rows[i].key = i - 1
                /\ out[Studio].rows[i].studio = studioData[i].studio
                /\ out[Studio].rows[i].profitRatio.whole * 100
                      + out[Studio].rows[i].profitRatio.frac
                      = studioData[i].profitRatio
    /\ out[Budget].status # "none" =>
          /\ out[Budget].status = "ok"
          /\ Len(out[Budget].scatters) = 4
          /\ out[Budget].scatters[1].data = horrorData
          /\ out[Budget].scatters[2].data = scifiData
          /\ out[Budget].scatters[3].data = actionData
          /\ out[Budget].scatters[4].data = dramaData
          /\ ConcatData(out[Budget].scatters, 1) = combinedData
          /\ Len(ConcatData(out[Budget].scatters, 1)) = 40
    /\ out[Genre].status # "none" =>
          /\ out[Genre].status = "ok"
          /\ out[Genre].data = genreData
          /\ Len(genreData) = 10
          /\ Len(out[Genre].lines) = 5
          /\ \A k \in 1..Len(out[Genre].lines) :
                /\ Len(out[Genre].lines[k].points) = Len(genreData)
                /\ \A i \in 1..Len(genreData) :
                      /\ out[Genre].lines[k].points[i].x = genreData[i].year
                      /\ out[Genre].lines[k].points[i].y
                            = genreData[i][out[Genre].lines[k].dataKey]

\* C2 witness: all three charts are on screen.
C2_Witness ==
    /\ out[Studio].status = "ok" /\ Len(out[Studio].cells) = 6
    /\ out[Budget].status = "ok" /\ Len(out[Budget].scatters) = 4
    /\ out[Genre].status = "ok" /\ Len(out[Genre].lines) = 5

GenreScores == {"horror", "scifi", "action", "drama", "comedy"}

\* C3: the genre-popularity dataset holds exactly 10 records, one per year,
\* the years pairwise distinct, strictly ascending and exactly the consecutive
\* years 2015..2024 of the chart title; every record carries all five scores.
C3_TenConsecutiveYears ==
    /\ Len(genreData) = 10
    /\ \A i, j \in 1..Len(genreData) :
          i # j => genreData[i].year # genreData[j].year
    /\ \A i \in 1..(Len(genreData) - 1) :
          genreData[i].year < genreData[i + 1].year
    /\ \A i \in 1..Len(genreData) :
          genreData[i].year = TitleFirstYear + (i - 1)
    /\ {genreData[i].year : i \in 1..Len(genreData)}
          = TitleFirstYear..TitleLastYear
    /\ \A i \in 1..Len(genreData) :
          GenreScores \subseteq DOMAIN genreData[i]

\* C3 witness: the chart titled 2015-2024 has been rendered over the dataset,
\* more than once.
C3_Witness ==
    /\ renders[Genre] >= 2
    /\ out[Genre].status = "ok"
    /\ out[Genre].title = <<2015, 2024>>
    /\ out[Genre].data[1].year = 2015
    /\ out[Genre].data[10].year = 2024

GenreNames == <<"Horror", "Science Fiction", "Action", "Drama">>

\* C4: within each of the four sample arrays every record has the same genre,
\* the four genres are pairwise distinct ('Horror', 'Science Fiction',
\* 'Action', 'Drama'), each is a key of genreStats, and combinedData is the
\* concatenation of the four arrays in that order (40 records).
C4_FourGenreBuckets ==
    LET arrays == <<horrorData, scifiData, actionData, dramaData>>
    IN  /\ \A k \in 1..4 : \A i \in 1..Len(arrays[k]) :
              arrays[k][i].genre = GenreNames[k]
        /\ \A k \in 1..4 : Len(arrays[k]) > 0
        /\ \A k, l \in 1..4 : k # l => GenreNames[k] # GenreNames[l]
        /\ \A k \in 1..4 : GenreNames[k] \in DOMAIN genreStats
        /\ combinedData = horrorData \o scifiData \o actionData \o dramaData
        /\ Len(combinedData) = 40
        /\ \A i \in 1..Len(combinedData) :
              Cardinality({k \in 1..4 : combinedData[i].genre = GenreNames[k]}) = 1

\* C4 witness: the component has been rendered and the last record of
\* combinedData is the last Drama record.
C4_Witness ==
    /\ out[Budget].status = "ok"
    /\ Len(combinedData) = 40
    /\ combinedData[40] = dramaData[10]
    /\ combinedData[1] = horrorData[1]

\* C5: no render of any component reaches an error state: every
\* renderScatter call gets a non-empty array and finds its genre in
\* genreStats, and every toFixed call (studio table cells, tooltip fields of
\* any plotted record) is applied to a number.
C5_NoRenderThrows ==
    /\ \A c \in Components : out[c].status \in {"none", "ok"}
    /\ tooltip.status \in {"none", "null", "ok"}
    /\ \A data \in {horrorData, scifiData, actionData, dramaData} :
          /\ Len(data) > 0
          /\ "genre" \in DOMAIN data[1]
          /\ data[1].genre \in DOMAIN genreStats
    /\ out[Budget].status = "ok" =>
          \A k \in 1..Len(out[Budget].scatters) :
              /\ out[Budget].scatters[k].name.genre.defined
              /\ out[Budget].scatters[k].name.avg.defined
    /\ out[Studio].status = "ok" =>
          \A i \in 1..Len(out[Studio].rows) :
              /\ out[Studio].rows[i].profitRatio.status = "ok"
              /\ out[Studio].rows[i].risk.status = "ok"
              /\ out[Studio].rows[i].genreDiversity.status = "ok"
    /\ (tooltipProps.active /\ tooltipProps.hasPayload
           /\ Len(tooltipProps.payload) > 0) => tooltip.status = "ok"

\* C5 witness: all three components are rendered and the tooltip shows the
\* last Drama record.
C5_Witness ==
    /\ \A c \in Components : out[c].status = "ok"
    /\ tooltip.status = "ok"
    /\ tooltipProps.payload[1].payload = dramaData[10]

\* ---------------------------------------------- statistics of the claims

RECURSIVE SumField(_, _)
SumField(seq, field) ==
    IF Len(seq) = 0 THEN 0
    ELSE seq[1][field] + SumField(Tail(seq), field)

\* The arithmetic mean of seq's `field`, rounded half up to a whole unit of
\* the field's fixed-point scale (for an efficiency: to two decimals).
RoundedMean(seq, field) ==
    (2 * SumField(seq, field) + Len(seq)) \div (2 * Len(seq))

\* mean(a.fa) > mean(b.fb), compared exactly by cross-multiplication.
MeanGreater(a, b, field) ==
    SumField(a, field) * Len(b) > SumField(b, field) * Len(a)

\* mean(a.revenue - a.budget) > mean(b.revenue - b.budget), exactly.
MeanProfitGreater(a, b) ==
    (SumField(a, "revenue") - SumField(a, "budget")) * Len(b)
        > (SumField(b, "revenue") - SumField(b, "budget")) * Len(a)

\* The sample points of genre g among the points handed to the Scatter series.
Rendered(g) ==
    SelectSeq(ConcatData(out[Budget].scatters, 1), LAMBDA p : p.genre = g)

\* The sample points of genre g in combinedData.
Bucket(g) ==
    SelectSeq(combinedData, LAMBDA p : p.genre = g)

Genres == {"Horror", "Science Fiction", "Action", "Drama"}

\* C6: for every genre g, genreStats[g] is the arithmetic mean of the
\* efficiency fields of g's ten sample points rounded to two decimals
\* (Horror 3.29, Science Fiction 1.60, Action 2.46, Drama 1.87), and the same
\* values are quoted in the Key Findings and in the executive summary.
C6_GenreStatsAreMeanEfficiency ==
    \A g \in Genres :
        /\ Len(Bucket(g)) = 10
        /\ genreStats[g] = RoundedMean(Bucket(g), "efficiency")
        /\ genreStats[g] = KeyFindingsEfficiency[g]
        /\ genreStats[g] = SummaryEfficiency[g]

\* C7: over the rendered sample points, Science Fiction's average revenue,
\* and its average revenue minus budget, are strictly greater than those of
\* Horror, Action and Drama, while its average efficiency is lower than
\* Horror's.
C7_ScifiHighestAbsoluteReturns ==
    out[Budget].status = "ok" =>
        /\ \A g \in Genres \ {"Science Fiction"} :
              /\ MeanGreater(Rendered("Science Fiction"), Rendered(g), "revenue")
              /\ MeanProfitGreater(Rendered("Science Fiction"), Rendered(g))
        /\ MeanGreater(Rendered("Horror"), Rendered("Science Fiction"),
                       "efficiency")

\* C8: over the rendered sample points, Horror's mean efficiency is strictly
\* greater than each other bucket's and its mean budget strictly lower than
\* each other bucket's, and Science Fiction's mean budget is strictly greater
\* than each other bucket's.
C8_HorrorEfficientScifiExpensive ==
    out[Budget].status = "ok" =>
        /\ \A g \in Genres : Len(Rendered(g)) = 10
        /\ \A g \in Genres \ {"Horror"} :
              /\ MeanGreater(Rendered("Horror"), Rendered(g), "efficiency")
              /\ MeanGreater(Rendered(g), Rendered("Horror"), "budget")
        /\ \A g \in Genres \ {"Science Fiction"} :
              MeanGreater(Rendered("Science Fiction"), Rendered(g), "budget")

\* C8 witness: the scatter chart is rendered with all 40 sample points.
C8_Witness ==
    /\ out[Budget].status = "ok"
    /\ Len(ConcatData(out[Budget].scatters, 1)) = 40
    /\ SumField(Rendered("Horror"), "budget") = 974
    /\ SumField(Rendered("Science Fiction"), "budget") = 13685

\* The studio records named `name`.
Named(name) ==
    {i \in 1..Len(studioData) : studioData[i].studio = name}

Change(score, from, to) ==
    LET first == CHOOSE i \in 1..Len(genreData) : genreData[i].year = from
        last  == CHOOSE i \in 1..Len(genreData) : genreData[i].year = to
    IN  genreData[last][score] - genreData[first][score]

\* C10: scifi(2024) minus scifi(2015) is exactly 26.0 popularity points, and
\* that gain is strictly greater than the 2015-to-2024 change of each of
\* horror, action, drama and comedy.
C10_ScifiGains26 ==
    /\ \E i \in 1..Len(genreData) : genreData[i].year = 2015
    /\ \E i \in 1..Len(genreData) : genreData[i].year = 2024
    /\ Change("scifi", 2015, 2024) = 260
    /\ \A s \in GenreScores \ {"scifi"} :
          Change(s, 2015, 2024) < Change("scifi", 2015, 2024)

\* C10 witness: the line chart is rendered and its Science Fiction line runs
\* from 72.6 to 98.6.
C10_Witness ==
    /\ out[Genre].status = "ok"
    /\ out[Genre].lines[2].dataKey = "scifi"
    /\ out[Genre].lines[2].points[1].y = 726
    /\ out[Genre].lines[2].points[10].y = 986

\* a / b rounded to the nearest integer, halves away from zero (b > 0).
RoundDiv(a, b) ==
    IF a >= 0 THEN (2 * a + b) \div (2 * b)
    ELSE 0 - ((2 * (0 - a) + b) \div (2 * b))

\* C11: for every pair of consecutive years the drama score of the later
\* year is strictly lower than that of the earlier year, and the total change
\* from 2015 to 2024 divided by the 9 yearly steps rounds to -0.9 at one
\* decimal.
C11_DramaDeclines ==
    /\ Len(genreData) = 10
    /\ \A i \in 1..(Len(genreData) - 1) :
          /\ genreData[i + 1].year = genreData[i].year + 1
          /\ genreData[i + 1].drama < genreData[i].drama
    /\ RoundDiv(Change("drama", 2015, 2024), Len(genreData) - 1) = 0 - 9

\* C11 witness: the line chart is rendered and its Drama line falls from
\* 71.8 to 63.9.
C11_Witness ==
    /\ out[Genre].status = "ok"
    /\ out[Genre].lines[4].dataKey = "drama"
    /\ out[Genre].lines[4].points[1].y = 718
    /\ out[Genre].lines[4].points[10].y = 639

\* C12: the arithmetic mean of the ten action scores rounds to 93.1 at one
\* decimal and is strictly greater than the ten-year mean of each of horror,
\* scifi, drama and comedy.
C12_ActionHighestMean ==
    /\ Len(genreData) = 10
    /\ RoundedMean(genreData, "action") = 931
    /\ \A s \in GenreScores \ {"action"} :
          SumField(genreData, "action") > SumField(genreData, s)

\* C12 witness: the line chart is rendered and its Action line holds the ten
\* action scores, which sum to 931.4.
C12_Witness ==
    /\ out[Genre].status = "ok"
    /\ out[Genre].lines[3].dataKey = "action"
    /\ Len(out[Genre].lines[3].points) = 10
    /\ SumField(genreData, "action") = 9314

RECURSIVE SumSquares(_, _)
SumSquares(seq, field) ==
    IF Len(seq) = 0 THEN 0
    ELSE seq[1][field] * seq[1][field] + SumSquares(Tail(seq), field)

\* n^2 times the population variance of seq's `field` (in squared units of
\* the field's scale): n * sum(x^2) - (sum x)^2.
ScaledVariance(seq, field) ==
    Len(seq) * SumSquares(seq, field) - SumField(seq, field) * SumField(seq, field)

\* The standard deviation of the comedy scores rounds to 0.37: the variance,
\* in squared tenths, lies in [3.65^2, 3.75^2) = [13.3225, 14.0625), with the
\* population divisor n^2 ...
ComedyPopulationSigmaIs037 ==
    LET n == Len(genreData)
        v == ScaledVariance(genreData, "comedy")
    IN  133225 * n * n <= 10000 * v /\ 10000 * v < 140625 * n * n

\* ... or with the sample divisor n (n - 1).
ComedySampleSigmaIs037 ==
    LET n == Len(genreData)
        v == ScaledVariance(genreData, "comedy")
    IN  133225 * n * (n - 1) <= 10000 * v /\ 10000 * v < 140625 * n * (n - 1)

\* C13: the standard deviation of the ten comedy scores equals 0.37 when
\* rounded to two decimals (its variance lies in [0.365^2, 0.375^2)), and
\* comedy's variance is strictly smaller than that of each other genre.
C13_ComedySigma037 ==
    /\ Len(genreData) = 10
    /\ ComedyPopulationSigmaIs037 \/ ComedySampleSigmaIs037
    /\ \A s \in GenreScores \ {"comedy"} :
          ScaledVariance(genreData, "comedy") < ScaledVariance(genreData, s)

\* The part of C13 the data bears out: comedy has strictly the smallest
\* variance of the five genres.
ComedyLeastVariance ==
    \A s \in GenreScores \ {"comedy"} :
        ScaledVariance(genreData, "comedy") < ScaledVariance(genreData, s)

DeepBlue == "#1a237e"
Fallback == "#5c6bc0"

\* C14: getColorByRAR is total onto four bands with strict lower thresholds:
\* '#1a237e' exactly when rar > 7, '#283593' exactly when 5 < rar <= 7,
\* '#3949ab' exactly when 4 < rar <= 5, '#5c6bc0' exactly when rar <= 4; the
\* boundary values 7, 5 and 4 fall in the lower band, and only studios with
\* rar > 7 get the deep blue bar.
C14_ColorBands ==
    /\ colorCall.called =>
          LET rar  == colorCall.rar
              fill == colorCall.fill
          IN  /\ fill \in {"#1a237e", "#283593", "#3949ab", "#5c6bc0"}
              /\ (fill = "#1a237e") <=> (rar > 700)
              /\ (fill = "#283593") <=> (500 < rar /\ rar <= 700)
              /\ (fill = "#3949ab") <=> (400 < rar /\ rar <= 500)
              /\ (fill = "#5c6bc0") <=> (rar <= 400)
    /\ out[Studio].status = "ok" =>
          \A i \in 1..Len(out[Studio].cells) :
              (out[Studio].cells[i].fill = DeepBlue)
                 <=> (studioData[i].riskAdjustedReturn > 700)

\* C14 witness: the function has been applied to the boundary value 7.00,
\* which falls in the second band, and the studio chart is rendered.
C14_Witness ==
    /\ colorCall.called
    /\ colorCall.rar = 700
    /\ colorCall.fill = "#283593"
    /\ out[Studio].status = "ok"

\* C15: CustomTooltip renders content if and only if active is truthy and
\* payload is present with at least one entry, and returns null in every
\* other case; when it renders, genre, budget, revenue and efficiency all come
\* from payload[0].payload, whatever further entries the payload holds.
C15_TooltipRendersFirstEntry ==
    tooltip.status # "none" =>
        /\ tooltip.status \in {"ok", "null"}
        /\ (tooltip.status = "ok")
              <=> (tooltipProps.active /\ tooltipProps.hasPayload
                      /\ Len(tooltipProps.payload) >= 1)
        /\ tooltip.status = "ok" =>
              LET data == tooltipProps.payload[1].payload
              IN  /\ tooltip.genre = [defined |-> TRUE, value |-> data.genre]
                  /\ tooltip.budget =
                        [status |-> "ok", whole |-> data.budget \div 10,
                         frac |-> data.budget % 10, digits |-> 1]
                  /\ tooltip.revenue =
                        [status |-> "ok", whole |-> data.revenue \div 10,
                         frac |-> data.revenue % 10, digits |-> 1]
                  /\ tooltip.efficiency =
                        [status |-> "ok", whole |-> data.efficiency \div 100,
                         frac |-> data.efficiency % 100, digits |-> 2]

\* C15 witness: the tooltip shows content for a payload whose second entry
\* is a different record than its first.
C15_Witness ==
    /\ tooltip.status = "ok"
    /\ Len(tooltipProps.payload) >= 2
    /\ tooltipProps.payload[2].payload # tooltipProps.payload[1].payload

\* |x|
Abs(x) == IF x >= 0 THEN x ELSE 0 - x

\* The efficiency of point p is revenue / budget rounded to two decimals:
\* |100 revenue - 100 efficiency budget| <= 0.5 budget, which in the model's
\* tenths and hundredths is |200 r - 2 e b| <= b.
EfficiencyConsistent(p) ==
    Abs(200 * p.revenue - 2 * p.efficiency * p.budget) <= p.budget

\* C16: for every one of the 40 sample points handed to the Scatter series
\* (and shown in the tooltip), the efficiency field equals revenue divided by
\* budget rounded to two decimals.
C16_EfficiencyIsRevenueOverBudget ==
    out[Budget].status = "ok" =>
        /\ Len(ConcatData(out[Budget].scatters, 1)) = 40
        /\ \A i \in 1..Len(ConcatData(out[Budget].scatters, 1)) :
              EfficiencyConsistent(ConcatData(out[Budget].scatters, 1)[i])

\* What the data bears out of C16: all points but the fifth Horror record
\* (budget 10.1, revenue 35.3, efficiency 3.49) are consistent.
AllButOneEfficiencyConsistent ==
    \A i \in 1..Len(combinedData) :
        EfficiencyConsistent(combinedData[i]) <=> (i # 5)

\* C17: every sample point lies inside the fixed axis domains of the scatter
\* chart: for all 40 records 0 <= budget <= 200 and 0 <= revenue <= 400, so no
\* point of any Scatter series falls outside the XAxis or YAxis domain.
C17_PointsInsideAxisDomains ==
    /\ Len(combinedData) = 40
    /\ \A i \in 1..Len(combinedData) :
          /\ 0 <= combinedData[i].budget /\ combinedData[i].budget <= 2000
          /\ 0 <= combinedData[i].revenue /\ combinedData[i].revenue <= 4000
    /\ out[Budget].status = "ok" =>
          \A k \in 1..Len(out[Budget].scatters) :
              \A i \in 1..Len(out[Budget].scatters[k].data) :
                  LET p == out[Budget].scatters[k].data[i]
                  IN  /\ out[Budget].xDomain[1] <= p.budget
                      /\ p.budget <= out[Budget].xDomain[2]
                      /\ out[Budget].yDomain[1] <= p.revenue
                      /\ p.revenue <= out[Budget].yDomain[2]

\* C17 witness: the scatter chart is rendered with its domains and the point
\* of greatest budget (183.7) and that of greatest revenue (359.5).
C17_Witness ==
    /\ out[Budget].status = "ok"
    /\ out[Budget].xDomain = <<0, 2000>>
    /\ out[Budget].yDomain = <<0, 4000>>
    /\ out[Budget].scatters[2].data[3].budget = 1837
    /\ out[Budget].scatters[3].data[5].revenue = 3595

\* The red, green and blue components a fill colour's hex digits spell.
ColorRGB ==
    ("#1a237e" :> <<26, 35, 126>>) @@ ("#283593" :> <<40, 53, 147>>)
        @@ ("#3949ab" :> <<57, 73, 171>>) @@ ("#5c6bc0" :> <<92, 107, 192>>)

\* Colour a is the same as or darker than colour b: no component is brighter.
SameOrDarker(a, b) ==
    \A k \in 1..3 : ColorRGB[a][k] <= ColorRGB[b][k]

\* C18: the studio records are listed in strictly descending
\* riskAdjustedReturn and getColorByRAR is monotone (rar1 >= rar2 implies the
\* band of rar1 is the same as or darker than that of rar2); so along the
\* rendered bars the colour never becomes darker, and since every studio's
\* riskAdjustedReturn exceeds 4 the fallback colour is assigned to no bar.
C18_BarsNeverDarken ==
    /\ \A i \in 1..(Len(studioData) - 1) :
          studioData[i].riskAdjustedReturn > studioData[i + 1].riskAdjustedReturn
    /\ \A i \in 1..Len(studioData) : studioData[i].riskAdjustedReturn > 400
    /\ colorCall.called =>
          \A rar2 \in RarInputs :
              colorCall.rar >= rar2
                 => SameOrDarker(colorCall.fill, getColorByRAR(rar2))
    /\ out[Studio].status = "ok" =>
          /\ \A i \in 1..(Len(out[Studio].cells) - 1) :
                SameOrDarker(out[Studio].cells[i].fill,
                             out[Studio].cells[i + 1].fill)
          /\ \A i \in 1..Len(out[Studio].cells) :
                out[Studio].cells[i].fill # Fallback

\* C18 witness: the bars are rendered, running from the deep blue of
\* Paramount to the third band of Blumhouse, and the function has been
\* applied to an argument of the second band.
C18_Witness ==
    /\ out[Studio].status = "ok"
    /\ out[Studio].cells[1].fill = DeepBlue
    /\ out[Studio].cells[6].fill = "#3949ab"
    /\ colorCall.called
    /\ colorCall.rar = 622

====
